---- MODULE Spec2Model ----
(***************************************************************************)
(* Model of the streaming question/answer part of 5a_map_streamlit.py:     *)
(* the generator ask_deepseek (the Stream Client), the thread _worker that *)
(* forwards its fragments into a queue.Queue, and the display loop of the  *)
(* Streamlit script that drains the queue and records the answer in        *)
(* st.session_state.chat_history.                                          *)
(*                                                                         *)
(* Texts are TLA+ strings and Python's + on str is \o.  The user-visible   *)
(* literals of the source are Chinese; they are written here in ASCII      *)
(* (the module cannot hold non-ASCII strings), one distinct string per     *)
(* distinct literal of the source.                                         *)
(***************************************************************************)
EXTENDS Integers, Sequences, FiniteSets, TLC

(***************************************************************************)
(* Bounds of the model.                                                    *)
(***************************************************************************)
\* questions submitted in one session
MaxQuestions == 2
\* fragments the runs of ask_deepseek of one session yield from chunk lines
MaxFrags == 2
\* failures in one session: exceptions of the service or the generator, and
\* first waits that time out
MaxFaults == 1
\* lines of a response in the whole-stream specification SpecStream
MaxStream == 2
\* turns of a history in the request specification SpecRequest
MaxHistory == 7

(***************************************************************************)
(* Literals of the source.                                                 *)
(***************************************************************************)
\* line 126: the end marker is an ordinary str
_END_TOKEN == "__END_OF_STREAM__"
\* line 133
NoKeyNotice == "(!) API Key not set, cannot call DeepSeek."
\* line 184: f"... {exc}"
ErrorFragment(exc) == "[X] DeepSeek call failed: " \o exc
\* line 230: f"... {exc}"
WorkerErrorFragment(exc) == "[X] DeepSeek error: " \o exc
\* line 215
ThinkingText == "Thinking..."
\* lines 240, 241: the text rendered carries a glyph, the text recorded does not
TimeoutRendered == "[X] no response in 25 s, try again later"
TimeoutRecorded == "no response in 25 s, try again later"
\* lines 244, 245
NoAnswerRendered == "[?] no answer received"
NoAnswerRecorded == "no answer received"
\* lines 248, 260, 265: the cursor glyph appended to the running answer
CursorGlyph == "|"
\* line 142
SystemMessage == [role |-> "system", content |-> "You are a travel consultant for 5A scenic spots."]
\* line 145: history[-6:]
HistoryWindow == 6

(***************************************************************************)
(* JSON values as json.loads returns them, tagged by their Python type.    *)
(***************************************************************************)
JNull == [t |-> "null"]
JStr(s) == [t |-> "str", s |-> s]
JNum(n) == [t |-> "num", n |-> n]
JArr(a) == [t |-> "arr", a |-> a]
JObj(o) == [t |-> "obj", o |-> o]

\* Python truth value of a decoded JSON value
Truthy(v) ==
    CASE v.t = "null" -> FALSE
      [] v.t = "str" -> v.s # ""
      [] v.t = "num" -> v.n # 0
      [] v.t = "arr" -> Len(v.a) > 0
      [] v.t = "obj" -> DOMAIN v.o # {}

\* results of evaluating an expression: a value or a raised exception
Val(v) == [ok |-> TRUE, v |-> v]
Raise(exc) == [ok |-> FALSE, exc |-> exc]

\* d.get(key): AttributeError unless d is a dict; None for a missing key
DictGet(d, key) ==
    IF d.t # "obj" THEN Raise("AttributeError: no attribute 'get'")
    ELSE IF key \in DOMAIN d.o THEN Val(d.o[key]) ELSE Val(JNull)

\* d[key] for a str key: KeyError for a dict without it, TypeError for the rest
DictItem(d, key) ==
    IF d.t = "obj"
    THEN IF key \in DOMAIN d.o THEN Val(d.o[key]) ELSE Raise("KeyError: " \o key)
    ELSE Raise("TypeError: bad index")

\* c[0] for a truthy c: first element of a list, KeyError for a dict (JSON keys
\* are str), TypeError for a number; of a str it is a str again (every use
\* below subscripts the result with a str key, a TypeError for any str)
FirstItem(c) ==
    CASE c.t = "arr" -> Val(c.a[1])
      [] c.t = "str" -> Val(JStr(c.s))
      [] c.t = "obj" -> Raise("KeyError: 0")
      [] OTHER -> Raise("TypeError: not subscriptable")

(***************************************************************************)
(* Response lines as resp.iter_lines() delivers them (bytes).  A line is   *)
(* empty, the keep-alive ": ping", some other text without the prefix      *)
(* "data: ", or "data: " followed by a payload.  A payload is the literal  *)
(* [DONE], bytes json.loads decodes to a value, bytes on which json.loads  *)
(* raises JSONDecodeError, or bytes that are not valid UTF-8, on which     *)
(* json.loads raises UnicodeDecodeError (a ValueError that is not a        *)
(* JSONDecodeError).                                                       *)
(***************************************************************************)
EmptyLine == [kind |-> "empty"]
PingLine == [kind |-> "ping"]
OtherLine == [kind |-> "other"]
DataLine(p) == [kind |-> "data", payload |-> p]
DonePayload == [kind |-> "done"]
JsonPayload(v) == [kind |-> "json", value |-> v]
InvalidJson == [kind |-> "invalid_json"]
InvalidUtf8 == [kind |-> "invalid_utf8"]

\* {"choices":[{"delta":{"content": c}}]}
Chunk(c) == JObj([choices |-> JArr(<<JObj([delta |-> JObj([content |-> c])])>>)])

\* the incremental texts the service sends
Deltas == {"A", _END_TOKEN}

\* decoded payloads that carry choices[0].delta.content as a non-empty str
ContentPayloads == {JsonPayload(Chunk(JStr(d))) : d \in Deltas}

\* decoded payloads without the path choices[0].delta.content
NoPathPayloads ==
    { JsonPayload(JObj([id |-> JStr("x")])),
      JsonPayload(JObj([choices |-> JArr(<<>>)])),
      JsonPayload(JObj([choices |-> JArr(<<JObj([index |-> JNum(0)])>>)])),
      JsonPayload(JObj([choices |-> JArr(<<JObj([delta |-> JNull])>>)])),
      JsonPayload(JObj([choices |-> JArr(<<JObj([delta |-> JObj([role |-> JStr("assistant")])])>>)])),
      JsonPayload(JArr(<<JNum(1)>>)),
      JsonPayload(JNull) }

\* decoded payloads whose content is present but null or empty
EmptyContentPayloads == {JsonPayload(Chunk(JNull)), JsonPayload(Chunk(JStr("")))}

Payloads ==
    {DonePayload, InvalidJson, InvalidUtf8}
        \cup ContentPayloads \cup NoPathPayloads \cup EmptyContentPayloads

Lines == {EmptyLine, PingLine, OtherLine} \cup {DataLine(p) : p \in Payloads}

\* line 174: json.loads(data_str)
json_loads(p) ==
    CASE p.kind = "json" -> Val(p.value)
      [] p.kind = "invalid_json" -> Raise("JSONDecodeError")
      [] p.kind = "invalid_utf8" -> Raise("UnicodeDecodeError")

\* lines 175-176: line_json.get("choices") and line_json["choices"][0]["delta"].get("content")
DeltaOf(line_json) ==
    LET c == DictGet(line_json, "choices") IN
    IF ~c.ok THEN c
    ELSE IF ~Truthy(c.v) THEN c
    ELSE LET e == FirstItem(c.v) IN
         IF ~e.ok THEN e
         ELSE LET d == DictItem(e.v, "delta") IN
              IF ~d.ok THEN d ELSE DictGet(d.v, "content")

\* the four ways one pass of the read loop's body can go
Skip == [o |-> "skip"]
Yield(text) == [o |-> "yield", text |-> text]
Break == [o |-> "break"]
Fail(exc) == [o |-> "error", exc |-> exc]

\* lines 173-181: the try around json.loads and the delta
DecodeChunk(p) ==
    LET j == json_loads(p) IN
    IF ~j.ok
    THEN IF j.exc = "JSONDecodeError" THEN Skip ELSE Fail(j.exc)
    ELSE LET delta == DeltaOf(j.v) IN
         IF ~delta.ok THEN Fail(delta.exc)
         ELSE IF ~Truthy(delta.v) THEN Skip
         ELSE IF delta.v.t = "str" THEN Yield(delta.v.s)
         ELSE Fail("TypeError: can only concatenate str")

\* mutant of ProcessLine: the test for [DONE] (line 170) is missing; json.loads
\* raises JSONDecodeError on it and the loop goes on
Mutant_ProcessLine(line) ==
    IF line.kind \in {"empty", "ping"} THEN Skip
    ELSE IF line.kind = "data"
         THEN IF line.payload.kind = "done" THEN Skip ELSE DecodeChunk(line.payload)
         ELSE Skip

\* lines 164-181: the body of the read loop for one line
ProcessLine(line) ==
    IF line.kind \in {"empty", "ping"} THEN Skip
    ELSE IF line.kind = "data"
         THEN IF line.payload.kind = "done" THEN Break ELSE DecodeChunk(line.payload)
         ELSE Skip

(***************************************************************************)
(* ask_deepseek as a whole: the sequence of fragments the generator yields *)
(* for a credential, a history, a prompt and a response of the service.    *)
(* A response is how requests.post ends ("ok", or an exception: a          *)
(* connection failure, or raise_for_status on a non-success status), the   *)
(* lines iter_lines delivers, and fail_at: iter_lines raises when asked    *)
(* for line number fail_at (0: it never raises).                           *)
(* A yielded fragment carries, beside its text, the place that yielded it  *)
(* (src: "notice" line 133, "delta" line 179, "error" line 184).           *)
(***************************************************************************)
Frag(src, text) == [src |-> src, text |-> text]

\* mutant of LastN: the slice keeps the first n elements, s[:n]
Mutant_LastN(s, n) == IF Len(s) <= n THEN s ELSE SubSeq(s, 1, n)

\* the last n elements of a sequence: s[-n:]
LastN(s, n) == IF Len(s) <= n THEN s ELSE SubSeq(s, Len(s) - n + 1, Len(s))

\* lines 142-149: the message list of the request
BuildMessages(prompt, history) ==
    LET recent == LastN(history, HistoryWindow) IN
    <<SystemMessage>>
        \o [i \in 1..Len(recent) |-> [role |-> recent[i][1], content |-> recent[i][2]]]
        \o <<[role |-> "user", content |-> prompt]>>

\* the exception requests.post / raise_for_status raises for an outcome
PostError(post) ==
    IF post = "conn_error" THEN "ConnectionError" ELSE "HTTPError: 500"

PostOutcomes == {"ok", "conn_error", "http_error"}

\* lines 163-184: the read loop from line number i on, out yielded so far
RECURSIVE ReadLoop(_, _, _, _)
ReadLoop(lines, fail_at, i, out) ==
    IF i = fail_at
    THEN [yields |-> Append(out, Frag("error", ErrorFragment("ChunkedEncodingError"))),
          exit |-> "error", read |-> i - 1]
    ELSE IF i > Len(lines)
    THEN [yields |-> out, exit |-> "exhausted", read |-> i - 1]
    ELSE LET r == ProcessLine(lines[i]) IN
         CASE r.o = "skip" -> ReadLoop(lines, fail_at, i + 1, out)
           [] r.o = "yield" ->
                ReadLoop(lines, fail_at, i + 1, Append(out, Frag("delta", r.text)))
           [] r.o = "break" -> [yields |-> out, exit |-> "done", read |-> i]
           [] r.o = "error" ->
                [yields |-> Append(out, Frag("error", ErrorFragment(r.exc))),
                 exit |-> "error", read |-> i]

\* lines 127-184: yields, the way the generator ended, the number of lines it
\* read, the number of HTTP requests it issued and the message list it sent
ask_deepseek(key, prompt, history, resp) ==
    IF ~key
    THEN [yields |-> <<Frag("notice", NoKeyNotice)>>, exit |-> "nokey", read |-> 0,
          requests |-> 0, messages |-> <<>>]
    ELSE LET messages == BuildMessages(prompt, history) IN
         IF resp.post # "ok"
         THEN [yields |-> <<Frag("error", ErrorFragment(PostError(resp.post)))>>,
               exit |-> "error", read |-> 0, requests |-> 1, messages |-> messages]
         ELSE LET r == ReadLoop(resp.lines, resp.fail_at, 1, <<>>) IN
              [yields |-> r.yields, exit |-> r.exit, read |-> r.read,
               requests |-> 1, messages |-> messages]

\* the texts of a sequence of fragments, concatenated in order
RECURSIVE Concat(_)
Concat(frags) == IF frags = <<>> THEN "" ELSE Head(frags).text \o Concat(Tail(frags))

(***************************************************************************)
(* The program state.  The script runs once per submitted question; the    *)
(* run of question r has its own queue q[r], its own user_question[r] and  *)
(* its own thread _worker, which goes on running after the script run that *)
(* started it has ended.  chat_history is the session's log.               *)
(*   wpc[r]: where the worker of question r is: "none" (no thread yet),    *)
(*     "start" (thread started, generator not yet advanced), "read" (in    *)
(*     the read loop, between two lines),                                  *)
(*     "end" (before q.put(_END_TOKEN), line 228 or 231), "done".          *)
(*   dpc: where the script run of question cur is: "idle" (run ended, or   *)
(*     no question yet), "first" (in q.get(timeout=25)), "poll" (in the    *)
(*     while loop).                                                        *)
(*   published[r] records every q.put of worker r with the place that put  *)
(*     it; requests[r] counts its calls of requests.post; gen_exit[r] is  *)
(*     the way its generator ended: "none" while it has not, "nokey" by   *)
(*     the return of line 134, "ended" by the break of line 171 or the    *)
(*     end of the lines, "error" by the handler of line 183, "raised" by  *)
(*     an exception that escaped it.                                      *)
(*   blink_due: the clock as line 263 reads it, that is whether            *)
(*     time.time() - last_update > 0.5 holds now.                          *)
(* s_resp, s_hist, s_result belong to the specifications SpecStream and    *)
(* SpecRequest further down: a response of the service, a history and what *)
(* ask_deepseek yields for them.                                           *)
(***************************************************************************)
VARIABLES DEEPSEEK_API_KEY, chat_history, cur, dpc, user_question, q, history_local,
          wpc, published, requests, messages, gen_exit, streamed_answer, slot,
          cursor_visible, blink_due, s_resp, s_hist, s_result

dvars == <<streamed_answer, slot, cursor_visible, blink_due>>
wvars == <<wpc, published, requests, messages, gen_exit>>
svars == <<s_resp, s_hist, s_result>>
vars == <<DEEPSEEK_API_KEY, chat_history, cur, dpc, user_question, q, history_local,
          wpc, published, requests, messages, gen_exit, streamed_answer, slot,
          cursor_visible, blink_due, s_resp, s_hist, s_result>>

Requests == 1..MaxQuestions

\* the questions a user types
Questions == {"Q"}

\* line 221: list(st.session_state.chat_history), a copy of the log
Snapshot(log) == [i \in 1..Len(log) |-> log[i]]

\* mutant of WorkerHistory: the worker is handed the session's log itself
Mutant_WorkerHistory(r) == chat_history

\* line 233, line 226: the history the worker hands to ask_deepseek is the
\* list it was started with
WorkerHistory(r) == history_local[r]

\* line 227: chunk or ""
OrEmpty(chunk) == IF chunk = "" THEN "" ELSE chunk

\* mutant of Put: one queue for the session, the workers put into the queue of
\* the question being displayed
Mutant_Put(r, src, text) ==
    /\ q' = [q EXCEPT ![cur] = Append(@, text)]
    /\ published' = [published EXCEPT ![r] = Append(@, Frag(src, text))]

\* q.put(text) by worker r, recorded with the place that put it
Put(r, src, text) ==
    /\ q' = [q EXCEPT ![r] = Append(@, text)]
    /\ published' = [published EXCEPT ![r] = Append(@, Frag(src, text))]

\* the fragments worker r has put from chunk lines
NumDeltas(r) == Cardinality({i \in 1..Len(published[r]) : published[r][i].src = "delta"})

RECURSIVE SumDeltas(_)
SumDeltas(n) == IF n = 0 THEN 0 ELSE NumDeltas(n) + SumDeltas(n - 1)

\* the failures of the session so far: error fragments put by the workers and
\* timeout notices recorded by the script runs
RECURSIVE SumErrors(_)
SumErrors(n) ==
    IF n = 0 THEN 0
    ELSE Cardinality({i \in 1..Len(published[n]) :
                         published[n][i].src \in {"error", "worker_error"}})
            + SumErrors(n - 1)

NumFaults ==
    SumErrors(MaxQuestions)
        + Cardinality({i \in 1..Len(chat_history) :
                          chat_history[i] = <<"assistant", TimeoutRecorded>>})

\* the lines the service sends in Spec: one line for each way through the read
\* loop's body (SpecStream draws its lines from all of Lines)
WireLines ==
    { EmptyLine, DataLine(InvalidJson), DataLine(DonePayload),
      DataLine(JsonPayload(JObj([choices |-> JArr(<<JObj([index |-> JNum(0)])>>)]))) }
        \cup {DataLine(p) : p \in ContentPayloads}

Init ==
    /\ DEEPSEEK_API_KEY \in BOOLEAN
    /\ chat_history = <<>>
    /\ cur = 0
    /\ dpc = "idle"
    /\ user_question = [r \in Requests |-> ""]
    /\ q = [r \in Requests |-> <<>>]
    /\ history_local = [r \in Requests |-> <<>>]
    /\ wpc = [r \in Requests |-> "none"]
    /\ published = [r \in Requests |-> <<>>]
    /\ requests = [r \in Requests |-> 0]
    /\ messages = [r \in Requests |-> <<>>]
    /\ gen_exit = [r \in Requests |-> "none"]
    /\ streamed_answer = ""
    /\ slot = ""
    /\ cursor_visible = TRUE
    /\ blink_due = FALSE
    /\ s_resp = [post |-> "ok", lines |-> <<>>, fail_at |-> 0]
    /\ s_hist = <<>>
    /\ s_result = [exit |-> "none"]

(***************************************************************************)
(* The script run up to the first q.get (lines 206-236).                   *)
(***************************************************************************)
Submit(question) ==
    /\ dpc = "idle"
    /\ cur < MaxQuestions
    /\ cur' = cur + 1
    /\ chat_history' = Append(chat_history, <<"user", question>>)
    /\ user_question' = [user_question EXCEPT ![cur'] = question]
    /\ slot' = ThinkingText
    /\ history_local' = [history_local EXCEPT ![cur'] = Snapshot(chat_history')]
    /\ wpc' = [wpc EXCEPT ![cur'] = "start"]
    /\ streamed_answer' = ""
    /\ dpc' = "first"
    /\ UNCHANGED <<DEEPSEEK_API_KEY, q, published, requests, messages, gen_exit,
                   cursor_visible, blink_due, svars>>

(***************************************************************************)
(* _worker and the generator it drives (lines 223-231, 127-184).           *)
(***************************************************************************)
\* the generator ends in the way e: the for loop of line 226 is left
End(r, e) ==
    /\ wpc' = [wpc EXCEPT ![r] = "end"]
    /\ gen_exit' = [gen_exit EXCEPT ![r] = e]

\* lines 136-161 for a credential: the request is built and posted
PostRequest(r) ==
    /\ messages' = [messages EXCEPT
                        ![r] = BuildMessages(user_question[r], WorkerHistory(r))]
    /\ requests' = [requests EXCEPT ![r] = @ + 1]
    /\ \E post \in PostOutcomes :
          IF post = "ok"
          THEN /\ wpc' = [wpc EXCEPT ![r] = "read"]
               /\ UNCHANGED <<q, published, gen_exit>>
          ELSE /\ NumFaults < MaxFaults
               /\ Put(r, "error", OrEmpty(ErrorFragment(PostError(post))))
               /\ End(r, "error")

\* mutant of WorkerStart: the test of the credential (line 132) is missing
Mutant_WorkerStart(r) ==
    /\ wpc[r] = "start"
    /\ PostRequest(r)
    /\ UNCHANGED <<DEEPSEEK_API_KEY, chat_history, cur, dpc, user_question,
                   history_local, dvars, svars>>

\* the generator's first advance, lines 132-161: without a credential it
\* yields the notice (put by line 227) and returns; with one it builds the
\* request and posts it
WorkerStart(r) ==
    /\ wpc[r] = "start"
    /\ IF ~DEEPSEEK_API_KEY
       THEN /\ Put(r, "notice", OrEmpty(NoKeyNotice))
            /\ End(r, "nokey")
            /\ UNCHANGED <<messages, requests>>
       ELSE PostRequest(r)
    /\ UNCHANGED <<DEEPSEEK_API_KEY, chat_history, cur, dpc, user_question,
                   history_local, dvars, svars>>

\* mutant of WorkerRaise: the handler forgets q.put(_END_TOKEN) (line 231)
Mutant_WorkerRaise(r) ==
    /\ wpc[r] = "start"
    /\ DEEPSEEK_API_KEY
    /\ Put(r, "worker_error", WorkerErrorFragment("MemoryError"))
    /\ wpc' = [wpc EXCEPT ![r] = "done"]
    /\ gen_exit' = [gen_exit EXCEPT ![r] = "raised"]
    /\ UNCHANGED <<DEEPSEEK_API_KEY, chat_history, cur, dpc, user_question,
                   history_local, requests, messages, dvars, svars>>

\* an exception raised by the generator outside its try (lines 136-157, e.g. a
\* MemoryError while the request is built) escapes to _worker: lines 229-230
WorkerRaise(r) ==
    /\ wpc[r] = "start"
    /\ DEEPSEEK_API_KEY
    /\ NumFaults < MaxFaults
    /\ Put(r, "worker_error", WorkerErrorFragment("MemoryError"))
    /\ End(r, "raised")
    /\ UNCHANGED <<DEEPSEEK_API_KEY, chat_history, cur, dpc, user_question,
                   history_local, requests, messages, dvars, svars>>

\* lines 163-181, 183-184, 227: iter_lines delivers a line
WorkerReadLine(r) ==
    /\ wpc[r] = "read"
    /\ \E line \in WireLines :
          LET o == ProcessLine(line) IN
          CASE o.o = "skip" -> UNCHANGED <<q, published, wpc, gen_exit>>
            [] o.o = "yield" ->
                 /\ SumDeltas(MaxQuestions) < MaxFrags
                 /\ Put(r, "delta", OrEmpty(o.text))
                 /\ UNCHANGED <<wpc, gen_exit>>
            [] o.o = "break" ->
                 /\ End(r, "ended")
                 /\ UNCHANGED <<q, published>>
            [] o.o = "error" ->
                 /\ NumFaults < MaxFaults
                 /\ Put(r, "error", OrEmpty(ErrorFragment(o.exc)))
                 /\ End(r, "error")
    /\ UNCHANGED <<DEEPSEEK_API_KEY, chat_history, cur, dpc, user_question,
                   history_local, requests, messages, dvars, svars>>

\* line 163, 182: iter_lines is exhausted
WorkerReadEnd(r) ==
    /\ wpc[r] = "read"
    /\ End(r, "ended")
    /\ UNCHANGED <<DEEPSEEK_API_KEY, chat_history, cur, dpc, user_question, q,
                   history_local, published, requests, messages, dvars, svars>>

\* mutant of WorkerReadFail: the except sits inside the for loop, which goes on
Mutant_WorkerReadFail(r) ==
    /\ wpc[r] = "read"
    /\ Len(published[r]) < MaxFrags + 2
    /\ Put(r, "error", OrEmpty(ErrorFragment("ChunkedEncodingError")))
    /\ UNCHANGED <<DEEPSEEK_API_KEY, chat_history, cur, dpc, user_question,
                   history_local, wpc, gen_exit, requests, messages, dvars, svars>>

\* line 163, 183-184: iter_lines raises (the connection breaks)
WorkerReadFail(r) ==
    /\ wpc[r] = "read"
    /\ NumFaults < MaxFaults
    /\ Put(r, "error", OrEmpty(ErrorFragment("ChunkedEncodingError")))
    /\ End(r, "error")
    /\ UNCHANGED <<DEEPSEEK_API_KEY, chat_history, cur, dpc, user_question,
                   history_local, requests, messages, dvars, svars>>

\* line 228 or 231: q.put(_END_TOKEN)
WorkerPutEnd(r) ==
    /\ wpc[r] = "end"
    /\ Put(r, "eos", _END_TOKEN)
    /\ wpc' = [wpc EXCEPT ![r] = "done"]
    /\ UNCHANGED <<DEEPSEEK_API_KEY, chat_history, cur, dpc, user_question,
                   history_local, requests, messages, gen_exit, dvars, svars>>

(***************************************************************************)
(* The display loop of the script run of question cur (lines 236-270).     *)
(* Time passes while the loop runs (Tick): at some moment more than 0.5 s   *)
(* have gone since last_update, and that stays so until last_update is set *)
(* again.  When the script run ends, cursor_visible and last_update are    *)
(* gone with it; the model puts them back to the values lines 251-252 give *)
(* them.                                                                   *)
(***************************************************************************)
\* lines 248, 260, 265: the running answer as rendered
Rendered(answer, visible) == answer \o (IF visible THEN CursorGlyph ELSE "")

\* lines 238-245: q.get(timeout=25) raises queue.Empty; the handler sets
\* first_chunk = _END_TOKEN and the if of line 243 runs after it
FirstTimeout ==
    /\ dpc = "first"
    /\ q[cur] = <<>>
    /\ NumFaults < MaxFaults
    /\ slot' = NoAnswerRendered
    /\ chat_history' = Append(Append(chat_history, <<"assistant", TimeoutRecorded>>),
                              <<"assistant", NoAnswerRecorded>>)
    /\ dpc' = "idle"
    /\ UNCHANGED <<DEEPSEEK_API_KEY, cur, user_question, q, history_local, wvars,
                   streamed_answer, cursor_visible, blink_due, svars>>

\* mutant of FirstGet: the test first_chunk == _END_TOKEN (line 243) is missing
Mutant_FirstGet ==
    /\ dpc = "first"
    /\ q[cur] # <<>>
    /\ q' = [q EXCEPT ![cur] = Tail(@)]
    /\ streamed_answer' = streamed_answer \o Head(q[cur])
    /\ slot' = Rendered(streamed_answer', TRUE)
    /\ cursor_visible' = TRUE
    /\ blink_due' = FALSE
    /\ dpc' = "poll"
    /\ UNCHANGED <<DEEPSEEK_API_KEY, chat_history, cur, user_question, history_local,
                   wvars, svars>>

\* lines 238, 243-252: q.get(timeout=25) returns first_chunk
FirstGet ==
    /\ dpc = "first"
    /\ q[cur] # <<>>
    /\ q' = [q EXCEPT ![cur] = Tail(@)]
    /\ LET first_chunk == Head(q[cur]) IN
       IF first_chunk = _END_TOKEN
       THEN /\ slot' = NoAnswerRendered
            /\ chat_history' = Append(chat_history, <<"assistant", NoAnswerRecorded>>)
            /\ dpc' = "idle"
            /\ UNCHANGED <<streamed_answer, cursor_visible, blink_due>>
       ELSE /\ streamed_answer' = streamed_answer \o first_chunk
            /\ slot' = Rendered(streamed_answer', TRUE)
            /\ cursor_visible' = TRUE
            /\ blink_due' = FALSE
            /\ dpc' = "poll"
            /\ UNCHANGED chat_history
    /\ UNCHANGED <<DEEPSEEK_API_KEY, cur, user_question, history_local, wvars, svars>>

\* lines 252, 263: the clock passes last_update + 0.5 s while the loop runs
Tick ==
    /\ dpc = "poll"
    /\ ~blink_due
    /\ blink_due' = TRUE
    /\ UNCHANGED <<DEEPSEEK_API_KEY, chat_history, cur, dpc, user_question, q,
                   history_local, wvars, streamed_answer, slot, cursor_visible, svars>>

\* mutant of PollGet: the test for the end item (lines 257-258) is missing, the
\* item is appended like a fragment and the loop goes on
Mutant_PollGet ==
    /\ dpc = "poll"
    /\ q[cur] # <<>>
    /\ q' = [q EXCEPT ![cur] = Tail(@)]
    /\ streamed_answer' = streamed_answer \o Head(q[cur])
    /\ slot' = Rendered(streamed_answer', cursor_visible)
    /\ UNCHANGED <<DEEPSEEK_API_KEY, chat_history, cur, dpc, user_question,
                   history_local, wvars, cursor_visible, blink_due, svars>>

\* lines 256-260, 269-270: q.get(timeout=0.1) returns chunk
PollGet ==
    /\ dpc = "poll"
    /\ q[cur] # <<>>
    /\ q' = [q EXCEPT ![cur] = Tail(@)]
    /\ LET chunk == Head(q[cur]) IN
       IF chunk = _END_TOKEN
       THEN /\ slot' = streamed_answer
            /\ chat_history' = Append(chat_history, <<"assistant", streamed_answer>>)
            /\ dpc' = "idle"
            /\ cursor_visible' = TRUE
            /\ blink_due' = FALSE
            /\ UNCHANGED streamed_answer
       ELSE /\ streamed_answer' = streamed_answer \o chunk
            /\ slot' = Rendered(streamed_answer', cursor_visible)
            /\ UNCHANGED <<chat_history, dpc, cursor_visible, blink_due>>
    /\ UNCHANGED <<DEEPSEEK_API_KEY, cur, user_question, history_local, wvars, svars>>

\* mutant of PollEmpty: the test of the clock (line 263) is missing, every
\* empty poll flips the cursor
Mutant_PollEmpty ==
    /\ dpc = "poll"
    /\ q[cur] = <<>>
    /\ cursor_visible' = ~cursor_visible
    /\ slot' = Rendered(streamed_answer, cursor_visible')
    /\ blink_due' = FALSE
    /\ UNCHANGED <<DEEPSEEK_API_KEY, chat_history, cur, dpc, user_question, q,
                   history_local, wvars, streamed_answer, svars>>

\* lines 256, 261-266: q.get(timeout=0.1) raises queue.Empty
PollEmpty ==
    /\ dpc = "poll"
    /\ q[cur] = <<>>
    /\ IF blink_due
       THEN /\ cursor_visible' = ~cursor_visible
            /\ slot' = Rendered(streamed_answer, cursor_visible')
            /\ blink_due' = FALSE
       ELSE UNCHANGED <<cursor_visible, slot, blink_due>>
    /\ UNCHANGED <<DEEPSEEK_API_KEY, chat_history, cur, dpc, user_question, q,
                   history_local, wvars, streamed_answer, svars>>

Next ==
    \/ \E question \in Questions : Submit(question)
    \/ \E r \in Requests : WorkerStart(r)
    \/ \E r \in Requests : WorkerRaise(r)
    \/ \E r \in Requests : WorkerReadLine(r)
    \/ \E r \in Requests : WorkerReadEnd(r)
    \/ \E r \in Requests : WorkerReadFail(r)
    \/ \E r \in Requests : WorkerPutEnd(r)
    \/ FirstTimeout
    \/ FirstGet
    \/ Tick
    \/ PollGet
    \/ PollEmpty

Spec == Init /\ [][Next]_vars

(***************************************************************************)
(* SpecFair: Spec with the scheduling the code has.  The thread of         *)
(* _worker, once past its for loop, runs its q.put(_END_TOKEN) (the queue  *)
(* is unbounded, put does not block); the script run is in a q.get that    *)
(* returns an item whenever the queue holds one.  Nothing is assumed about *)
(* the service: the lines of a response may never come.                    *)
(***************************************************************************)
SpecFair ==
    /\ Init
    /\ [][Next]_vars
    /\ \A r \in Requests : WF_vars(WorkerPutEnd(r))
    /\ WF_vars(FirstGet)
    /\ WF_vars(PollGet)

(***************************************************************************)
(* SpecStream: ask_deepseek applied to whole responses.  InitStream draws  *)
(* the credential, the history and the response; StreamRun runs the        *)
(* generator to its end and keeps what it yielded in s_result.  No script  *)
(* run and no worker exist in this specification.                          *)
(***************************************************************************)
StreamsOfLen(n) == [1..n -> Lines]

\* the responses of at most max lines
Responses(max) ==
    {[post |-> p, lines |-> <<>>, fail_at |-> 0] : p \in PostOutcomes \ {"ok"}}
        \cup UNION {{[post |-> "ok", lines |-> ls, fail_at |-> f] :
                        ls \in StreamsOfLen(n), f \in 0..(n + 1)} : n \in 0..max}

\* without a credential no response is asked for
NoResponse == [post |-> "ok", lines |-> <<>>, fail_at |-> 0]

StreamHistories == {<<>>, <<<<"user", "Q">>>>}

InitStream ==
    /\ DEEPSEEK_API_KEY \in BOOLEAN
    /\ chat_history = <<>>
    /\ cur = 0
    /\ dpc = "idle"
    /\ user_question = [r \in Requests |-> ""]
    /\ q = [r \in Requests |-> <<>>]
    /\ history_local = [r \in Requests |-> <<>>]
    /\ wpc = [r \in Requests |-> "none"]
    /\ published = [r \in Requests |-> <<>>]
    /\ requests = [r \in Requests |-> 0]
    /\ messages = [r \in Requests |-> <<>>]
    /\ gen_exit = [r \in Requests |-> "none"]
    /\ streamed_answer = ""
    /\ slot = ""
    /\ cursor_visible = TRUE
    /\ blink_due = FALSE
    /\ s_resp \in (IF DEEPSEEK_API_KEY THEN Responses(MaxStream) ELSE {NoResponse})
    /\ s_hist \in StreamHistories
    /\ s_result = [exit |-> "none"]

StreamRun ==
    /\ s_result.exit = "none"
    /\ s_result' = ask_deepseek(DEEPSEEK_API_KEY, "Q", s_hist, s_resp)
    /\ UNCHANGED <<DEEPSEEK_API_KEY, chat_history, cur, dpc, user_question, q,
                   history_local, wvars, dvars, s_resp, s_hist>>

NextStream == StreamRun

SpecStream == InitStream /\ [][NextStream]_vars

(***************************************************************************)
(* SpecRequest: the request ask_deepseek builds, for histories longer than *)
(* the window of line 145.  InitRequest draws the credential, the history  *)
(* and how requests.post ends; the lines of the response play no part.     *)
(***************************************************************************)
\* the turns of a log: (role, content) tuples
HistoryTurns == {<<"user", "Q">>, <<"assistant", "A">>}

\* the histories of at most max turns
Histories(max) == UNION {[1..n -> HistoryTurns] : n \in 0..max}

InitRequest ==
    /\ DEEPSEEK_API_KEY \in BOOLEAN
    /\ chat_history = <<>>
    /\ cur = 0
    /\ dpc = "idle"
    /\ user_question = [r \in Requests |-> ""]
    /\ q = [r \in Requests |-> <<>>]
    /\ history_local = [r \in Requests |-> <<>>]
    /\ wpc = [r \in Requests |-> "none"]
    /\ published = [r \in Requests |-> <<>>]
    /\ requests = [r \in Requests |-> 0]
    /\ messages = [r \in Requests |-> <<>>]
    /\ gen_exit = [r \in Requests |-> "none"]
    /\ streamed_answer = ""
    /\ slot = ""
    /\ cursor_visible = TRUE
    /\ blink_due = FALSE
    /\ s_resp \in (IF DEEPSEEK_API_KEY
                   THEN {[post |-> p, lines |-> <<>>, fail_at |-> 0] : p \in PostOutcomes}
                   ELSE {NoResponse})
    /\ s_hist \in Histories(MaxHistory)
    /\ s_result = [exit |-> "none"]

SpecRequest == InitRequest /\ [][NextStream]_vars

(***************************************************************************)
(* Vocabulary of the claims.                                               *)
(***************************************************************************)
\* the items the display loop has taken from q[r]
Taken(r) == Len(published[r]) - Len(q[r])

\* the fragments worker r has put: everything but the end marker of line 228/231
IsFragment(f) == f.src # "eos"
PublishedFrags(r) == SelectSeq(published[r], IsFragment)

\* the script run of question cur has ended
RunEnded == dpc = "idle" /\ cur >= 1

\* ... after taking at least one item from its queue (it did not time out)
RunEndedByItem == RunEnded /\ Taken(cur) >= 1

\* ... without taking any item: q.get(timeout=25) raised queue.Empty
RunEndedByTimeout == RunEnded /\ Taken(cur) = 0

\* the answer recorded last in the log
LastTurn == chat_history[Len(chat_history)]

Positions(r, src) == {i \in 1..Len(published[r]) : published[r][i].src = src}

(***************************************************************************)
(* The claims.                                                             *)
(***************************************************************************)

\* C1: whenever the worker has published fragments F1..Fn (n >= 1) and then
\* EndOfStream, and the display loop has drained its queue to the end (its
\* first wait did not time out), the text rendered last and the answer
\* recorded are F1 ++ ... ++ Fn.
C1_FinalAnswerIsConcatenation ==
    (RunEndedByItem /\ wpc[cur] = "done" /\ Len(PublishedFrags(cur)) >= 1)
        => /\ slot = Concat(PublishedFrags(cur))
           /\ LastTurn = <<"assistant", Concat(PublishedFrags(cur))>>

\* C2: the worker puts EndOfStream exactly once, as its last put: a worker
\* that is done has put it once and last, a worker that is not has not put it.
C2_EndOfStreamOnceAndLast ==
    \A r \in Requests :
        IF wpc[r] = "done"
        THEN /\ gen_exit[r] # "none"
             /\ Positions(r, "eos") = {Len(published[r])}
        ELSE Positions(r, "eos") = {}

\* a worker is done after two fragments and EndOfStream, its generator ended normally
C2_Witness ==
    \E r \in Requests :
        /\ wpc[r] = "done"
        /\ Len(published[r]) = 3
        /\ gen_exit[r] = "ended"

\* C3: when the first wait times out, the text rendered last is the timeout
\* notice and so is the answer recorded.
C3_TimeoutEndsWithTimeoutNotice ==
    RunEndedByTimeout
        => /\ slot = TimeoutRendered
           /\ LastTurn = <<"assistant", TimeoutRecorded>>

\* C4: when the first item taken is EndOfStream, the run ends at once (the poll
\* loop is not entered) with the "no answer received" notice rendered and
\* recorded right after the question, and nothing of the timeout notice.
C4_FirstEndOfStreamIsNoAnswer ==
    (cur >= 1 /\ Taken(cur) >= 1 /\ published[cur][1].src = "eos")
        => /\ dpc = "idle"
           /\ Taken(cur) = 1
           /\ slot = NoAnswerRendered
           /\ LastTurn = <<"assistant", NoAnswerRecorded>>
           /\ chat_history[Len(chat_history) - 1] = <<"user", user_question[cur]>>

C4_Witness ==
    /\ cur >= 1
    /\ Taken(cur) = 1
    /\ published[cur][1].src = "eos"
    /\ dpc = "idle"

\* C5: no text fragment is taken for EndOfStream: the display loop stops
\* taking items only on the item the worker put as EndOfStream.
C5_OnlyEndOfStreamStopsTheLoop ==
    RunEndedByItem => published[cur][Taken(cur)].src = "eos"

\* the generator run with a credential on a response that delivers ls and ends
RunLines(ls) == ask_deepseek(TRUE, "Q", <<>>, [post |-> "ok", lines |-> ls, fail_at |-> 0])

Front(s) == SubSeq(s, 1, Len(s) - 1)

NoPathLines == {DataLine(p) : p \in NoPathPayloads}

\* C6: a line whose payload decodes but lacks choices[0].delta.content is
\* skipped: when the generator reaches such a line it yields nothing for it,
\* neither fragment nor error fragment, and goes on to ask for the next line.
C6_NoPathLineIsSkipped ==
    LET ls == s_resp.lines IN
    ( /\ s_result.exit # "none"
      /\ DEEPSEEK_API_KEY
      /\ s_resp.post = "ok"
      /\ s_resp.fail_at = 0
      /\ Len(ls) >= 1
      /\ ls[Len(ls)] \in NoPathLines
      /\ RunLines(Front(ls)).exit = "exhausted" )
        => /\ s_result.exit = "exhausted"
           /\ s_result.yields = RunLines(Front(ls)).yields

\* the lines the claim calls skipped: empty, keep-alive, without the prefix
\* "data: ", or with a payload that cannot be parsed as JSON
IsSkippedLine(l) ==
    \/ l.kind \in {"empty", "ping", "other"}
    \/ l.kind = "data" /\ l.payload.kind \in {"invalid_json", "invalid_utf8"}

IsKeptLine(l) == ~IsSkippedLine(l)

\* a response with its skipped lines removed (a failure of iter_lines stays
\* between the same two kept lines)
RemoveSkipped(resp) ==
    [post |-> resp.post,
     lines |-> SelectSeq(resp.lines, IsKeptLine),
     fail_at |-> IF resp.fail_at = 0 THEN 0
                 ELSE resp.fail_at
                        - Cardinality({i \in 1..(resp.fail_at - 1) :
                                          IsSkippedLine(resp.lines[i])})]

\* C7: the fragments the generator yields for a response are those it yields
\* for the same response with every skipped line removed.
C7_SkippedLinesChangeNothing ==
    (s_result.exit # "none")
        => s_result.yields
              = ask_deepseek(DEEPSEEK_API_KEY, "Q", s_hist, RemoveSkipped(s_resp)).yields

\* the place of the r-th user turn in the log, and the log as it was when
\* question r had just been appended to it (the log only grows)
UserPositions == {i \in 1..Len(chat_history) : chat_history[i][1] = "user"}
UserTurnIndex(r) ==
    CHOOSE i \in UserPositions : Cardinality({j \in UserPositions : j <= i}) = r
LogAtSubmit(r) == SubSeq(chat_history, 1, UserTurnIndex(r))

\* C8: the history of a request is the log as it was when the question was
\* submitted, whatever has been appended to the log since: the worker's list
\* is that log, and the message list it built holds the turns of that log.
C8_SnapshotUnaffectedByLaterAppends ==
    \A r \in 1..cur :
        /\ history_local[r] = LogAtSubmit(r)
        /\ requests[r] >= 1 => messages[r] # <<>>
        /\ messages[r] # <<>>
              => messages[r] = BuildMessages(user_question[r], LogAtSubmit(r))

\* a worker has built its request and the log has grown since its question
C8_Witness ==
    \E r \in 1..cur :
        /\ messages[r] # <<>>
        /\ Len(chat_history) > UserTurnIndex(r)
        /\ wpc[r] = "read"

\* C9: a failure of requests.post, of raise_for_status or inside the read loop
\* produces exactly one error fragment; it is the last fragment, the generator
\* has ended with it, and EndOfStream is the worker's next and last put.
C9_ErrorFragmentIsSingleAndTerminal ==
    \A r \in Requests :
        LET errs == Positions(r, "error")
            n == Len(published[r])
        IN  /\ (gen_exit[r] = "error") <=> (errs # {})
            /\ Cardinality(errs) <= 1
            /\ errs # {} =>
                  /\ wpc[r] \in {"end", "done"}
                  /\ wpc[r] = "end" => errs = {n}
                  /\ wpc[r] = "done" => errs = {n - 1} /\ published[r][n].src = "eos"

\* a read loop has failed after a fragment, and the worker is done
C9_Witness ==
    \E r \in Requests :
        /\ wpc[r] = "done"
        /\ gen_exit[r] = "error"
        /\ NumDeltas(r) >= 1
        /\ requests[r] = 1

\* C10: without a credential the generator yields the no-credential notice
\* and nothing else and issues no request; the worker puts that notice and
\* then EndOfStream; a display loop that takes them ends with the notice as
\* the text rendered and the answer recorded.
C10_NoCredentialNotice ==
    ~DEEPSEEK_API_KEY =>
        \A r \in 1..cur :
            /\ requests[r] = 0
            /\ messages[r] = <<>>
            /\ wpc[r] \in {"start", "end", "done"}
            /\ wpc[r] = "start" => published[r] = <<>>
            /\ wpc[r] = "end" => published[r] = <<Frag("notice", NoKeyNotice)>>
            /\ wpc[r] = "done" =>
                  published[r] = <<Frag("notice", NoKeyNotice), Frag("eos", _END_TOKEN)>>
            /\ (r = cur /\ RunEndedByItem) =>
                  /\ slot = NoKeyNotice
                  /\ LastTurn = <<"assistant", NoKeyNotice>>

C10_Witness ==
    /\ ~DEEPSEEK_API_KEY
    /\ RunEndedByItem
    /\ wpc[cur] = "done"
    /\ slot = NoKeyNotice

\* the chunk lines in which choices[0].delta.content is present as a str
ContentLines == {DataLine(JsonPayload(Chunk(JStr(d)))) : d \in Deltas \cup {""}}
ContentOf(l) == l.payload.value.o.choices.a[1].o.delta.o.content.s

\* the generator run on the first n lines of ls
RunPrefix(ls, n) == RunLines(SubSeq(ls, 1, n))

\* C11: every chunk line the generator reaches in which choices[0].delta.content
\* is present is yielded as the next fragment, also when the content is the
\* empty string.
C11_PresentContentIsYielded ==
    LET ls == s_resp.lines IN
    (s_result.exit # "none" /\ DEEPSEEK_API_KEY /\ s_resp.post = "ok" /\ s_resp.fail_at = 0)
        => \A i \in 1..Len(ls) :
              (ls[i] \in ContentLines /\ RunPrefix(ls, i - 1).exit = "exhausted")
                 => LET k == Len(RunPrefix(ls, i - 1).yields) IN
                    /\ Len(s_result.yields) >= k + 1
                    /\ s_result.yields[k + 1] = Frag("delta", ContentOf(ls[i]))

\* C12: a line with the payload [DONE] that the generator reaches ends the
\* sequence normally: the generator stops reading there, what it has yielded
\* is what it yielded for the lines before, so no line after [DONE] is yielded,
\* and no fragment is an error fragment.
C12_DoneEndsTheSequence ==
    LET ls == s_resp.lines IN
    (s_result.exit # "none" /\ DEEPSEEK_API_KEY /\ s_resp.post = "ok")
        => \A i \in 1..Len(ls) :
              ( /\ ls[i] = DataLine(DonePayload)
                /\ RunPrefix(ls, i - 1).exit = "exhausted"
                /\ (s_resp.fail_at = 0 \/ s_resp.fail_at > i) )
                 => /\ s_result.exit = "done"
                    /\ s_result.read = i
                    /\ s_result.yields = RunPrefix(ls, i - 1).yields
                    /\ \A j \in 1..Len(s_result.yields) : s_result.yields[j].src # "error"

\* the response is [DONE] followed by a chunk line with content
C12_Witness ==
    /\ s_result.exit = "done"
    /\ Len(s_resp.lines) = 2
    /\ s_resp.lines[1] = DataLine(DonePayload)
    /\ s_resp.lines[2] = DataLine(JsonPayload(Chunk(JStr("A"))))
    /\ s_result.yields = <<>>

\* C13: the message list of the request is the system message, then the last
\* min(6, n) turns of the n turns of the supplied history in their order, then
\* the question as a user turn.
C13_MessageListShape ==
    (s_result.exit # "none" /\ DEEPSEEK_API_KEY)
        => LET m == s_result.messages
               n == Len(s_hist)
               k == IF n < 6 THEN n ELSE 6
           IN  /\ s_result.requests = 1
               /\ Len(m) = 1 + k + 1
               /\ m[1] = SystemMessage
               /\ \A j \in 1..k :
                     m[1 + j] = [role |-> s_hist[n - k + j][1], content |-> s_hist[n - k + j][2]]
               /\ m[Len(m)] = [role |-> "user", content |-> "Q"]

\* a request was built for a history of more than six turns that are not all alike
C13_Witness ==
    /\ s_result.exit # "none"
    /\ DEEPSEEK_API_KEY
    /\ Len(s_hist) > 6
    /\ s_hist[1] # s_hist[Len(s_hist)]
    /\ Len(s_result.messages) = 8

\* the texts of a sequence of fragments
Texts(frags) == [i \in 1..Len(frags) |-> frags[i].text]

\* the script run of question r has ended
Ended(r) == r < cur \/ (r = cur /\ dpc = "idle")

\* the first wait of question r timed out: the turn recorded after the
\* question is the timeout notice
TimedOut(r) ==
    /\ r \in 1..cur
    /\ Ended(r)
    /\ chat_history[UserTurnIndex(r) + 1] = <<"assistant", TimeoutRecorded>>

\* the turns recorded for question r: those after its user turn, up to the next
\* user turn
AnswerTurns(r) ==
    SubSeq(chat_history, UserTurnIndex(r) + 1,
           IF r < cur THEN UserTurnIndex(r + 1) - 1 ELSE Len(chat_history))

\* the state part of C14: nothing has been taken from the queue of a question
\* that timed out, every queue holds what its own worker has put and the
\* display loop has not yet taken, and the running answer is made of items of
\* the queue of the question being displayed
C14_Channels ==
    /\ \A r \in 1..cur : TimedOut(r) => (Taken(r) = 0 /\ q[r] = Texts(published[r]))
    /\ \A s \in Requests :
          q[s] = Texts(SubSeq(published[s], Taken(s) + 1, Len(published[s])))
    /\ dpc # "idle" => streamed_answer = Concat(SubSeq(published[cur], 1, Taken(cur)))

\* the step part of C14, for a question r that has timed out: nothing is taken
\* from its queue, what is recorded for it stays, what is rendered for it stays
\* until the next question is submitted, and a put of its worker changes
\* neither the text rendered, nor the log, nor the running answer, nor the
\* queue of any other question
C14_Steps ==
    \A r \in 1..cur :
        TimedOut(r) =>
            /\ Len(q'[r]) >= Len(q[r])
            /\ AnswerTurns(r)' = AnswerTurns(r)
            /\ (cur' = cur /\ cur = r) => slot' = slot
            /\ published'[r] # published[r] =>
                  /\ slot' = slot
                  /\ chat_history' = chat_history
                  /\ streamed_answer' = streamed_answer
                  /\ \A s \in Requests \ {r} : q'[s] = q[s]

\* C14: after a first-fragment timeout the display loop takes nothing from
\* that question's queue, and what the abandoned worker puts later changes
\* neither what is rendered and recorded for that question nor the queue or
\* the answer of a later question.
C14_AbandonedWorkerIsIgnored == []C14_Channels /\ [][C14_Steps]_vars

\* question r timed out, its worker has since put a fragment and EndOfStream,
\* and a later question has been answered from its own queue
C14_Witness ==
    \E r \in 1..cur :
        /\ TimedOut(r)
        /\ wpc[r] = "done"
        /\ Len(published[r]) >= 2
        /\ cur > r
        /\ dpc = "idle"
        /\ LastTurn = <<"assistant", "A">>

\* the step part of C15: the poll loop records nothing while it runs, and the
\* step that ends it renders the running answer without the cursor glyph and
\* records that answer; a run that ends in its first wait records a turn too
C15_StopStep ==
    /\ (dpc = "poll" /\ dpc' = "poll") => chat_history' = chat_history
    /\ (dpc = "poll" /\ dpc' = "idle") =>
          /\ streamed_answer' = streamed_answer
          /\ slot' = streamed_answer
          /\ chat_history' = Append(chat_history, <<"assistant", streamed_answer>>)
    /\ (dpc = "first" /\ dpc' = "idle") =>
          /\ Len(chat_history') > Len(chat_history)
          /\ chat_history'[Len(chat_history')][1] = "assistant"

\* C15: under fair scheduling, once the generator of the question being
\* displayed has ended (by any exit) the display loop eventually stops, and
\* the step that stops the poll loop, and no step before it, renders the
\* running answer without the cursor glyph and records it.
C15_DisplayLoopStops ==
    /\ (dpc # "idle" /\ gen_exit[cur] # "none") ~> (dpc = "idle")
    /\ [][C15_StopStep]_vars

\* a poll loop has stopped on the EndOfStream put after a fragment
C15_Witness ==
    /\ RunEnded
    /\ gen_exit[cur] = "ended"
    /\ wpc[cur] = "done"
    /\ q[cur] = <<>>
    /\ Taken(cur) = 2
    /\ slot = "A"
    /\ LastTurn = <<"assistant", "A">>

\* the step part of C16: a step that leaves the poll loop takes the item the
\* worker put as EndOfStream from the queue, and while the queue is empty
\* every step leaves the loop polling and the log as it is
C16_PollExit ==
    /\ (dpc = "poll" /\ dpc' # "poll") =>
          /\ q[cur] # <<>>
          /\ q'[cur] = Tail(q[cur])
          /\ published[cur][Taken(cur) + 1].src = "eos"
    /\ (dpc = "poll" /\ q[cur] = <<>>) =>
          /\ dpc' = "poll"
          /\ chat_history' = chat_history

\* C16: once the first fragment is accepted the poll loop ends only by taking
\* EndOfStream from the queue; no empty poll ends it or records an answer.
C16_OnlyEndOfStreamEndsPolling == [][C16_PollExit]_vars

\* the fragments the display loop has taken from the queue of question r
TakenFrags(r) == SelectSeq(SubSeq(published[r], 1, Taken(r)), IsFragment)

\* the state part of C17: the running answer is the fragments taken so far,
\* concatenated in the order the worker put them, and so a prefix of the
\* fragments put so far
C17_AnswerIsTaken ==
    cur >= 1 =>
        /\ streamed_answer = Concat(TakenFrags(cur))
        /\ \E n \in 0..Len(PublishedFrags(cur)) :
              /\ TakenFrags(cur) = SubSeq(PublishedFrags(cur), 1, n)
              /\ streamed_answer = Concat(SubSeq(PublishedFrags(cur), 1, n))

\* the step part of C17: within a request the running answer stays, or grows
\* by the item at the head of the queue, which is taken
C17_AnswerGrows ==
    cur' = cur =>
        \/ streamed_answer' = streamed_answer
        \/ /\ q[cur] # <<>>
           /\ q'[cur] = Tail(q[cur])
           /\ streamed_answer' = streamed_answer \o Head(q[cur])

\* C17: at every moment the running answer is the concatenation, in queue
\* order, of exactly the fragments taken so far, a prefix of what the
\* generator has produced; it only grows, by appending the next fragment.
C17_RunningAnswerIsPrefix == []C17_AnswerIsTaken /\ [][C17_AnswerGrows]_vars

\* a step taken while the poll loop waits on its empty queue: the running
\* answer, the log and the loop stay; a queue changes only by a put of its
\* worker; the cursor flag flips only when more than the blink interval has
\* gone since last_update, which the flip sets anew, and then the same text is
\* rendered again with the glyph as the flag says; otherwise the rendered
\* text stays
C18_EmptyPoll ==
    (dpc = "poll" /\ q[cur] = <<>>) =>
        /\ streamed_answer' = streamed_answer
        /\ chat_history' = chat_history
        /\ dpc' = "poll"
        /\ \A s \in Requests : q'[s] # q[s] => Len(published'[s]) > Len(published[s])
        /\ cursor_visible' # cursor_visible =>
              /\ blink_due
              /\ ~blink_due'
              /\ slot' = Rendered(streamed_answer, cursor_visible')
        /\ cursor_visible' = cursor_visible => slot' = slot
        /\ (blink_due /\ ~blink_due') => cursor_visible' # cursor_visible

\* C18: a poll that finds the queue empty leaves the running answer, the
\* queues and the log unchanged; it can only flip the cursor flag, and only
\* when more than the blink interval has passed, and render the same text again.
C18_EmptyPollOnlyBlinks == [][C18_EmptyPoll]_vars

\* an empty poll has flipped the cursor off: the running answer is rendered
\* without the glyph while the loop polls on
C18_Witness ==
    /\ dpc = "poll"
    /\ q[cur] = <<>>
    /\ ~cursor_visible
    /\ ~blink_due
    /\ streamed_answer = "A"
    /\ slot = "A"

\* C19: every question adds one user turn to the log and, when its run ends,
\* one assistant turn, whatever the outcome: the log alternates user and
\* assistant turns, with one turn of each per finished question.
C19_LogAlternates ==
    /\ \A i \in 1..Len(chat_history) :
          chat_history[i][1] = (IF i % 2 = 1 THEN "user" ELSE "assistant")
    /\ Len(chat_history) = (IF dpc = "idle" THEN 2 * cur ELSE 2 * cur - 1)

\* the log as it was before question r was submitted
EarlierTurns(r) == SubSeq(chat_history, 1, UserTurnIndex(r) - 1)

\* C20: the message list sent for a question is the system message, the last
\* min(6, n) of the n turns that were in the log before the question was
\* submitted, and the question, once, as the final user turn.
C20_QuestionSentOnce ==
    \A r \in 1..cur :
        messages[r] # <<>> =>
            LET m == messages[r]
                earlier == EarlierTurns(r)
                n == Len(earlier)
                k == IF n < 6 THEN n ELSE 6
            IN  /\ Len(m) = 1 + k + 1
                /\ m[Len(m)] = [role |-> "user", content |-> user_question[r]]
                /\ \A j \in 1..k :
                      /\ 1 + j < Len(m)
                      /\ m[1 + j] = [role |-> earlier[n - k + j][1],
                                     content |-> earlier[n - k + j][2]]

====
